---- MODULE Spec2Model ----
(***************************************************************************)
(* FatigueSet data cleaning: the Extractor (data_extractor.py) loads the   *)
(* sensor files of a data root into one SQLite store, the Query Service    *)
(* (database.py) reads that store.  The store, one extractor and one       *)
(* FatigueSetDatabase instance are the state; every method is one action.  *)
(***************************************************************************)
EXTENDS Integers, Sequences, FiniteSets, TLC

VARIABLES
    dataRoot,       \* the data root: [files: Seq(file), metadata: Seq(participant) or NoMetadata]
    tables,         \* names of the tables that exist in the store (sqlite_master)
    sensorRows,     \* sensor table name -> Seq of rows, in rowid order
    participants,   \* rows of the participants table
    dataDict,       \* rows of the data_dictionary table
    pc,             \* position of extract_all_data
    dataFiles,      \* extract_all_data's data_files
    idx,            \* index of the next entry of data_files in the for loop
    total_records,  \* extract_all_data's total_records
    returned,       \* what process_data_file returned for each file of this run
    runs,           \* completed runs of extract_all_data
    history,        \* per completed run: [counts, processed, total, committed, summary]
    conn,           \* FatigueSetDatabase.conn: "none", "open" or "closed"
    result          \* what the last Query Service call on the instance returned

vars == <<dataRoot, tables, sensorRows, participants, dataDict, pc, dataFiles,
          idx, total_records, returned, runs, history, conn, result>>

storeVars == <<tables, sensorRows, participants, dataDict>>
extractorVars == <<pc, dataFiles, idx, total_records, returned, runs, history>>
queryVars == <<conn, result>>

-----------------------------------------------------------------------------
(* Bounds *)

MaxRuns == 2
MaxFiles == 2
MaxLimit == 2

-----------------------------------------------------------------------------
(* Sensor Catalog: two of the sensor_definitions entries *)

SensorNames == {"wrist_hr", "wrist_acc"}

sensor_definitions ==
    [s \in SensorNames |->
        IF s = "wrist_hr"
        THEN [columns |-> <<"timestamp", "hr">>, description |-> "heart rate"]
        ELSE [columns |-> <<"timestamp", "ax", "ay", "az">>,
              description |-> "wrist accelerometer"]]

MetaTables == {"participants", "data_dictionary"}

ParticipantIds == {"101", "102"}

\* ORDER BY participant_id
PidRank(p) == IF p = "101" THEN 1 ELSE IF p = "102" THEN 2 ELSE 3

-----------------------------------------------------------------------------
(* Sequence helpers *)

Range(s) == {s[i] : i \in DOMAIN s}

Take(s, n) == SubSeq(s, 1, IF n < Len(s) THEN n ELSE Len(s))

RECURSIVE SumSeq(_)
SumSeq(s) == IF s = <<>> THEN 0 ELSE s[1] + SumSeq(Tail(s))

\* the text of a line that was not split: its cells, joined
RECURSIVE JoinCells(_)
JoinCells(cells) ==
    IF cells = <<>> THEN 1000
    ELSE cells[Len(cells)] + 100 * JoinCells(SubSeq(cells, 1, Len(cells) - 1))

-----------------------------------------------------------------------------
(* The data root: <participant>/<session>/<sensor>.<ext> files and metadata.csv *)

\* A file: its path (participant dir, session dir, stem, suffix) and its text
\* (the delimiter it is written with, its header line, its data lines).
\* readable = FALSE is a file pandas cannot parse at all (empty or undecodable).
HrExact101 ==
    [participant_id |-> "101", session_id |-> 0, sensor_name |-> "wrist_hr",
     suffix |-> ".csv", sep |-> ",", readable |-> TRUE,
     header |-> <<"timestamp", "hr">>, cells |-> <<<<3, 70>>, <<1, 71>>>>]

HrExact102 ==
    [participant_id |-> "102", session_id |-> 1, sensor_name |-> "wrist_hr",
     suffix |-> ".csv", sep |-> ",", readable |-> TRUE,
     header |-> <<"timestamp", "hr">>, cells |-> <<<<2, 80>>, <<4, 81>>>>]

HrSurplus ==
    [participant_id |-> "101", session_id |-> 1, sensor_name |-> "wrist_hr",
     suffix |-> ".csv", sep |-> ",", readable |-> TRUE,
     header |-> <<"timestamp", "hr", "quality">>,
     cells |-> <<<<6, 90, 7>>, <<5, 91, 7>>>>]

AccShortTxt ==
    [participant_id |-> "102", session_id |-> 0, sensor_name |-> "wrist_acc",
     suffix |-> ".txt", sep |-> "\t", readable |-> TRUE,
     header |-> <<"timestamp", "ax">>, cells |-> <<<<2, 11>>, <<1, 12>>>>]

HrUnreadable ==
    [participant_id |-> "102", session_id |-> 0, sensor_name |-> "wrist_hr",
     suffix |-> ".csv", sep |-> ",", readable |-> FALSE,
     header |-> <<>>, cells |-> <<>>]

FileChoices ==
    {HrExact101, HrExact102, HrSurplus, AccShortTxt, HrUnreadable}

\* the directory listing order is whatever iterdir gives
FileLists ==
    {fs \in UNION {[1..n -> FileChoices] : n \in 0..MaxFiles} :
        \A i, j \in DOMAIN fs : i # j => fs[i] # fs[j]}

MetadataRows ==
    <<[participant_id |-> "102", low_session |-> 1, medium_session |-> 2, high_session |-> 3],
      [participant_id |-> "101", low_session |-> 3, medium_session |-> 1, high_session |-> 2]>>

DataRoots ==
    [files : FileLists,
     metadata : {[exists |-> FALSE, rows |-> <<>>], [exists |-> TRUE, rows |-> MetadataRows]}]

-----------------------------------------------------------------------------
(* Extractor: reading and reconciling one file *)

Failed == [ok |-> FALSE, cols |-> <<>>, rows |-> <<>>]

\* pd.read_csv(file_path, sep=sep): a line holds one cell unless it is written
\* with the delimiter asked for
ReadCsv(f, sep) ==
    IF ~f.readable THEN Failed
    ELSE IF f.sep = sep \/ Len(f.header) <= 1
    THEN [ok |-> TRUE, cols |-> f.header, rows |-> f.cells]
    ELSE [ok |-> TRUE, cols |-> <<"unsplit">>,
          rows |-> [i \in DOMAIN f.cells |-> <<JoinCells(f.cells[i])>>]]

\* comma first, then tab, then space, until the column count is the expected one
ReadDataFileRetrying(f) ==
    LET n == Len(sensor_definitions[f.sensor_name].columns)
        comma == ReadCsv(f, ",")
        tab == ReadCsv(f, "\t")
    IN  IF comma.ok /\ Len(comma.cols) = n THEN comma
        ELSE IF tab.ok /\ Len(tab.cols) = n THEN tab
        ELSE ReadCsv(f, " ")

\* the suffix decides the delimiter; the space parse is tried only when the
\* tab parse raises
ReadDataFile(f) ==
    IF f.suffix = ".csv" THEN ReadCsv(f, ",")
    ELSE LET tab == ReadCsv(f, "\t")
         IN  IF tab.ok THEN tab ELSE ReadCsv(f, " ")

\* df.columns = names: pandas raises on a length mismatch
SetColumns(df, names) ==
    IF Len(names) = Len(df.cols)
    THEN [ok |-> TRUE, cols |-> names, rows |-> df.rows]
    ELSE Failed

\* df[col] = 0: a new trailing column, or the column of that name overwritten
AddZeroColumn(df, col) ==
    IF \E i \in DOMAIN df.cols : df.cols[i] = col
    THEN [df EXCEPT !.rows =
            [r \in DOMAIN df.rows |->
                [c \in DOMAIN df.cols |-> IF df.cols[c] = col THEN 0 ELSE df.rows[r][c]]]]
    ELSE [df EXCEPT !.cols = Append(df.cols, col),
                    !.rows = [r \in DOMAIN df.rows |-> Append(df.rows[r], 0)]]

RECURSIVE AddZeroColumns(_, _)
AddZeroColumns(df, names) ==
    IF names = <<>> THEN df
    ELSE AddZeroColumns(AddZeroColumn(df, names[1]), Tail(names))

ReconcileColumns(df, expected_columns) ==
    IF Len(df.cols) # Len(expected_columns)
    THEN IF Len(df.cols) >= Len(expected_columns)
         THEN SetColumns(df, Take(expected_columns, Len(df.cols)))
         ELSE SetColumns(
                AddZeroColumns(df, SubSeq(expected_columns, Len(df.cols) + 1,
                                          Len(expected_columns))),
                expected_columns)
    ELSE SetColumns(df, expected_columns)

\* to_sql with if_exists='replace': the table holds the new rows only
ToSqlReplace(stored, df, participant_id, session_id) ==
    [r \in DOMAIN df.rows |->
        [id |-> r, vals |-> df.rows[r],
         participant_id |-> participant_id, session_id |-> session_id]]

\* df.to_sql(sensor_name, conn, if_exists='append'): the rows get the next rowids
ToSqlAppend(stored, df, participant_id, session_id) ==
    stored \o
    [r \in DOMAIN df.rows |->
        [id |-> Len(stored) + r, vals |-> df.rows[r],
         participant_id |-> participant_id, session_id |-> session_id]]

\* the try block of process_data_file: the reconciled frame, or the failure
LoadFrame(f) ==
    LET df == ReadDataFile(f)
    IN  IF ~df.ok THEN Failed
        ELSE ReconcileColumns(df, sensor_definitions[f.sensor_name].columns)

\* process_data_file as a whole: what it returns, the table afterwards, and
\* whether an exception leaves it (none does: except Exception returns 0)
process_data_file_uncaught(f, stored) ==
    LET df == LoadFrame(f)
    IN  IF df.ok
        THEN [records |-> Len(df.rows), raised |-> FALSE,
              stored |-> ToSqlAppend(stored, df, f.participant_id, f.session_id)]
        ELSE [records |-> 0, raised |-> TRUE, stored |-> stored]

process_data_file(f, stored) ==
    LET df == LoadFrame(f)
    IN  IF df.ok
        THEN [records |-> Len(df.rows), raised |-> FALSE,
              stored |-> ToSqlAppend(stored, df, f.participant_id, f.session_id)]
        ELSE [records |-> 0, raised |-> FALSE, stored |-> stored]

\* scan_data_files: numeric directories, .csv/.txt, stem in sensor_definitions
IsDataFile(f) ==
    /\ f.suffix \in {".csv", ".txt"}
    /\ f.sensor_name \in DOMAIN sensor_definitions

scan_data_files(root) == SelectSeq(root.files, IsDataFile)

-----------------------------------------------------------------------------
(* Extractor: extract_all_data, one action per step *)

NoCall ==
    [op |-> "none", outcome |-> "none", accessed |-> FALSE, name |-> "",
     participant_id |-> "", session_id |-> [given |-> "no", val |-> 0], limit |-> 0,
     query_type |-> "", data |-> <<>>, total |-> 0, sensor_types |-> 0]

Counts == [s \in SensorNames |-> Len(sensorRows[s])]

DictionaryRow(s) ==
    [sensor_name |-> s, description |-> sensor_definitions[s].description,
     columns |-> sensor_definitions[s].columns]

RunRecord(committed) ==
    [counts |-> Counts, discovered |-> Len(dataFiles), processed |-> Len(returned),
     total |-> total_records, committed |-> committed, summary |-> committed]

\* extract_all_data is entered: sqlite3.connect(self.db_path).  The Extractor
\* and the Query Service never run against the store at the same time, so a
\* run starts only while no Query Service instance is in use.
StartRun ==
    /\ pc = "idle"
    /\ runs < MaxRuns
    /\ conn = "none"
    /\ result = NoCall
    /\ pc' = "schema"
    /\ dataFiles' = <<>>
    /\ idx' = 1
    /\ total_records' = 0
    /\ returned' = <<>>
    /\ UNCHANGED <<dataRoot, storeVars, runs, history, queryVars>>

\* DROP TABLE before each CREATE TABLE: the sensor tables start empty
create_database_schema_recreating ==
    /\ pc = "schema"
    /\ tables' = tables \cup {"participants", "data_dictionary"} \cup SensorNames
    /\ dataDict' = {d \in dataDict : d.sensor_name \notin SensorNames}
                     \cup {DictionaryRow(s) : s \in SensorNames}
    /\ sensorRows' = [s \in SensorNames |-> <<>>]
    /\ pc' = "metadata"
    /\ UNCHANGED <<dataRoot, participants, dataFiles, idx, total_records,
                   returned, runs, history, queryVars>>

\* CREATE TABLE IF NOT EXISTS for participants, every sensor and the
\* dictionary; INSERT OR REPLACE of one dictionary row per sensor; commit
create_database_schema ==
    /\ pc = "schema"
    /\ tables' = tables \cup {"participants", "data_dictionary"} \cup SensorNames
    /\ dataDict' = {d \in dataDict : d.sensor_name \notin SensorNames}
                     \cup {DictionaryRow(s) : s \in SensorNames}
    /\ pc' = "metadata"
    /\ UNCHANGED <<dataRoot, sensorRows, participants, dataFiles, idx, total_records,
                   returned, runs, history, queryVars>>

\* metadata.csv replaces the participants table; without it only a warning
load_metadata ==
    /\ pc = "metadata"
    /\ participants' = IF dataRoot.metadata.exists THEN dataRoot.metadata.rows
                       ELSE participants
    /\ pc' = "scan"
    /\ UNCHANGED <<dataRoot, tables, sensorRows, dataDict, dataFiles, idx,
                   total_records, returned, runs, history, queryVars>>

\* scan_data_files finds files: the loop starts
ScanFound ==
    /\ pc = "scan"
    /\ scan_data_files(dataRoot) # <<>>
    /\ dataFiles' = scan_data_files(dataRoot)
    /\ idx' = 1
    /\ total_records' = 0
    /\ pc' = "files"
    /\ UNCHANGED <<dataRoot, storeVars, returned, runs, history, queryVars>>

\* scan_data_files finds nothing: warning, return, the connection is closed
ScanEmpty ==
    /\ pc = "scan"
    /\ scan_data_files(dataRoot) = <<>>
    /\ dataFiles' = <<>>
    /\ history' = Append(history, [RunRecord(FALSE) EXCEPT !.discovered = 0])
    /\ runs' = runs + 1
    /\ pc' = "idle"
    /\ UNCHANGED <<dataRoot, storeVars, idx, total_records, returned, queryVars>>

\* one iteration of the for loop: records = process_data_file(file_info);
\* total_records += records.  An exception leaving process_data_file would
\* end the run in the finally clause, uncommitted.
ProcessFile ==
    /\ pc = "files"
    /\ idx <= Len(dataFiles)
    /\ LET f == dataFiles[idx]
           out == process_data_file(f, sensorRows[f.sensor_name])
       IN  IF out.raised
           THEN /\ history' = Append(history, RunRecord(FALSE))
                /\ runs' = runs + 1
                /\ pc' = "idle"
                /\ UNCHANGED <<sensorRows, idx, total_records, returned>>
           ELSE /\ sensorRows' = [sensorRows EXCEPT ![f.sensor_name] = out.stored]
                /\ total_records' = total_records + out.records
                /\ returned' = Append(returned, out.records)
                /\ idx' = idx + 1
                /\ UNCHANGED <<pc, runs, history>>
    /\ UNCHANGED <<dataRoot, tables, participants, dataDict, dataFiles, queryVars>>

\* after the loop: commit, the total is logged, show_database_stats, close
FinishRun ==
    /\ pc = "files"
    /\ idx > Len(dataFiles)
    /\ history' = Append(history, RunRecord(TRUE))
    /\ runs' = runs + 1
    /\ pc' = "idle"
    /\ UNCHANGED <<dataRoot, storeVars, dataFiles, idx, total_records, returned, queryVars>>

Extract ==
    \/ StartRun
    \/ create_database_schema
    \/ load_metadata
    \/ ScanFound
    \/ ScanEmpty
    \/ ProcessFile
    \/ FinishRun

-----------------------------------------------------------------------------
(* Query Service: what each method of FatigueSetDatabase does to self.conn *)
(* and what it returns.  outcome: "value" (a result), "none" (None, the    *)
(* not-found sentinel), "error" (a dict with an 'error' key), "raise"      *)
(* (an exception leaves the method)                                        *)

\* a Python None argument
None == "None"
NoSession == [given |-> "no", val |-> 0]

\* if participant_id: / if session_id: / if not sensor_name:
TruthyStr(x) == x \notin {None, ""}
TruthySession(x) == x.given = "str" \/ (x.given = "int" /\ x.val # 0)

Call(op, outcome, accessed) ==
    [NoCall EXCEPT !.op = op, !.outcome = outcome, !.accessed = accessed]

\* self.connect(): a new connection only when self.conn is None; a closed
\* connection object is still truthy and is handed back
connect(c) == IF c = "none" THEN "open" ELSE c

\* the rows of s ordered by key (key[i] is the key of s[i]), rows of equal
\* key in rowid order (asc) or in the reverse order
SortByKey(s, key, asc) ==
    LET Before(i, j) ==
            \/ key[i] < key[j]
            \/ key[i] = key[j] /\ (IF asc THEN i < j ELSE i > j)
        Pos(i) == Cardinality({j \in DOMAIN s : Before(j, i)}) + 1
    IN  [p \in DOMAIN s |-> s[CHOOSE i \in DOMAIN s : Pos(i) = p]]

\* a set as a sequence in Key order (Key is one-to-one on the set)
RECURSIVE SetToSeq(_, _)
SetToSeq(S, key) ==
    IF S = {} THEN <<>>
    ELSE LET m == CHOOSE x \in S : \A y \in S : key[x] <= key[y]
         IN  <<m>> \o SetToSeq(S \ {m}, key)

SensorRank(s) == IF s = "wrist_acc" THEN 1 ELSE 2

ParticipantKey(p) == PidRank(p.participant_id)
Timestamp(row) == row.vals[1]

get_participants(c) ==
    LET c1 == connect(c)
    IN  IF c1 = "closed"
        THEN [conn |-> c1, result |-> Call("get_participants", "raise", TRUE)]
        ELSE IF "participants" \notin tables
        THEN [conn |-> c1, result |-> Call("get_participants", "raise", TRUE)]
        ELSE [conn |-> "closed",
              result |-> [Call("get_participants", "value", TRUE) EXCEPT
                            !.data = SortByKey(participants,
                                  [i \in DOMAIN participants |-> ParticipantKey(participants[i])],
                                  TRUE),
                            !.total = Len(participants)]]

get_available_sensors(c) ==
    LET c1 == connect(c)
        names == {d.sensor_name : d \in dataDict}
        listed == SetToSeq(names, [n \in names |-> SensorRank(n)])
    IN  IF c1 = "closed"
        THEN [conn |-> c1, result |-> Call("get_available_sensors", "raise", TRUE)]
        ELSE IF "data_dictionary" \notin tables
        THEN [conn |-> c1, result |-> Call("get_available_sensors", "raise", TRUE)]
        ELSE [conn |-> "closed",
              result |-> [Call("get_available_sensors", "value", TRUE) EXCEPT
                            !.data = [i \in DOMAIN listed |->
                                        [sensor_name |-> listed[i],
                                         description |-> sensor_definitions[listed[i]].description]],
                            !.total = Len(listed)]]

\* GROUP BY participant_id, session_id ORDER BY participant_id, session_id
GroupStats(rows) ==
    LET pairs == {<<r.participant_id, r.session_id>> : r \in Range(rows)}
        ordered == SetToSeq(pairs, [q \in pairs |-> 10 * PidRank(q[1]) + q[2]])
    IN  [i \in DOMAIN ordered |->
            [participant_id |-> ordered[i][1], session_id |-> ordered[i][2],
             record_count |-> Cardinality({k \in DOMAIN rows :
                                 /\ rows[k].participant_id = ordered[i][1]
                                 /\ rows[k].session_id = ordered[i][2]})]]

\* the sentinel also for a table that holds no rows
get_sensor_data_summary_none_when_empty(c, sensor_name) ==
    LET c1 == connect(c)
        op == [Call("get_sensor_data_summary", "raise", TRUE) EXCEPT !.name = sensor_name]
    IN  IF c1 = "closed" THEN [conn |-> c1, result |-> op]
        ELSE IF sensor_name \notin tables
        THEN [conn |-> c1, result |-> [op EXCEPT !.outcome = "none"]]
        ELSE IF sensor_name \notin SensorNames
        THEN [conn |-> c1, result |-> op]
        ELSE IF sensorRows[sensor_name] = <<>>
        THEN [conn |-> c1, result |-> [op EXCEPT !.outcome = "none"]]
        ELSE [conn |-> c1,
              result |-> [op EXCEPT !.outcome = "value",
                                    !.total = Len(sensorRows[sensor_name]),
                                    !.data = GroupStats(sensorRows[sensor_name])]]

\* the table check, COUNT(*), then the GROUP BY, which names columns only
\* the sensor tables have; the connection is not closed
get_sensor_data_summary(c, sensor_name) ==
    LET c1 == connect(c)
        op == [Call("get_sensor_data_summary", "raise", TRUE) EXCEPT !.name = sensor_name]
    IN  IF c1 = "closed" THEN [conn |-> c1, result |-> op]
        ELSE IF sensor_name \notin tables
        THEN [conn |-> c1, result |-> [op EXCEPT !.outcome = "none"]]
        ELSE IF sensor_name \notin SensorNames
        THEN [conn |-> c1, result |-> op]
        ELSE [conn |-> c1,
              result |-> [op EXCEPT !.outcome = "value",
                                    !.total = Len(sensorRows[sensor_name]),
                                    !.data = GroupStats(sensorRows[sensor_name])]]

\* the WHERE clause get_sensor_data builds: a condition per truthy argument
Selected(rows, participant_id, session_id) ==
    LET Keep(r) ==
            /\ TruthyStr(participant_id) => r.participant_id = participant_id
            /\ TruthySession(session_id) => r.session_id = session_id.val
    IN  SelectSeq(rows, Keep)

\* LIMIT ?: a negative limit is no upper bound
Limit(rows, limit) == IF limit < 0 THEN rows ELSE Take(rows, limit)

\* rows in stored order, cut to limit
UnorderedLimit(rows, limit, asc) == Limit(rows, limit)

\* ORDER BY timestamp LIMIT ?
OrderByTimestampLimit(rows, limit, asc) ==
    Limit(SortByKey(rows, [i \in DOMAIN rows |-> Timestamp(rows[i])], asc), limit)

\* PRAGMA table_info, then the SELECT: an unknown table, or one without the
\* columns named, raises; the connection is not closed
get_sensor_data(c, sensor_name, participant_id, session_id, limit, asc) ==
    LET c1 == connect(c)
        op == [Call("get_sensor_data", "raise", TRUE) EXCEPT
                 !.name = sensor_name, !.participant_id = participant_id,
                 !.session_id = session_id, !.limit = limit]
        data == OrderByTimestampLimit(
                    Selected(sensorRows[sensor_name], participant_id, session_id),
                    limit, asc)
    IN  IF c1 = "closed" THEN [conn |-> c1, result |-> op]
        ELSE IF sensor_name \notin tables \/ sensor_name \notin SensorNames
        THEN [conn |-> c1, result |-> op]
        ELSE [conn |-> c1,
              result |-> [op EXCEPT !.outcome = "value", !.data = data,
                                    !.total = Len(data)]]

\* COUNT(*), session_id ... WHERE participant_id = ? GROUP BY session_id
SessionStats(rows, participant_id) ==
    LET sessions == {r.session_id : r \in {x \in Range(rows) : x.participant_id = participant_id}}
        ordered == SetToSeq(sessions, [q \in sessions |-> q])
    IN  [i \in DOMAIN ordered |->
            [session_id |-> ordered[i],
             record_count |-> Cardinality({k \in DOMAIN rows :
                                 /\ rows[k].participant_id = participant_id
                                 /\ rows[k].session_id = ordered[i]})]]

SensorStats(sensors, participant_id) ==
    LET all == [i \in DOMAIN sensors |->
                  [sensor_name |-> sensors[i].sensor_name,
                   description |-> sensors[i].description,
                   session_stats |-> SessionStats(sensorRows[sensors[i].sensor_name],
                                                  participant_id)]]
        HasRows(e) == e.session_stats # <<>>
    IN  SelectSeq(all, HasRows)

\* the participant row is read on the method's cursor; get_available_sensors
\* then runs on the same connection object and closes it; the per-sensor
\* statements are executed on the first cursor afterwards
get_participant_overview(c, participant_id) ==
    LET c1 == connect(c)
        op == [Call("get_participant_overview", "raise", TRUE) EXCEPT
                 !.participant_id = participant_id]
        inner == get_available_sensors(c1)
        sensors == inner.result.data
    IN  IF c1 = "closed" THEN [conn |-> c1, result |-> op]
        ELSE IF "participants" \notin tables THEN [conn |-> c1, result |-> op]
        ELSE IF \A i \in DOMAIN participants : participants[i].participant_id # participant_id
        THEN [conn |-> c1, result |-> [op EXCEPT !.outcome = "none"]]
        ELSE IF inner.result.outcome = "raise" THEN [conn |-> inner.conn, result |-> op]
        ELSE IF sensors # <<>> /\ inner.conn = "closed"
        THEN [conn |-> inner.conn, result |-> op]
        ELSE [conn |-> inner.conn,
              result |-> [op EXCEPT !.outcome = "value",
                                    !.data = SensorStats(sensors, participant_id),
                                    !.total = Len(sensors)]]

\* search_params.get('limit', 1000)
DefaultLimit == 1000

\* search_data without the sensor_name check
search_data_unchecked(c, query_type, params, asc) ==
    LET sub ==
            IF query_type = "participants" THEN get_participants(c)
            ELSE IF query_type = "sensors" THEN get_available_sensors(c)
            ELSE get_sensor_data(c, params.sensor_name, params.participant_id,
                                 params.session_id,
                                 IF params.has_limit THEN params.limit ELSE DefaultLimit,
                                 asc)
    IN  [conn |-> sub.conn,
         result |-> [sub.result EXCEPT !.op = "search_data", !.query_type = query_type,
                                       !.name = params.sensor_name]]

\* the dispatch on query_type; the two error results are returned before
\* anything touches the store
search_data(c, query_type, params, asc) ==
    LET error == [Call("search_data", "error", FALSE) EXCEPT
                    !.query_type = query_type, !.name = params.sensor_name]
        sub ==
            IF query_type = "participants" THEN get_participants(c)
            ELSE IF query_type = "sensors" THEN get_available_sensors(c)
            ELSE get_sensor_data(c, params.sensor_name, params.participant_id,
                                 params.session_id,
                                 IF params.has_limit THEN params.limit ELSE DefaultLimit,
                                 asc)
    IN  IF query_type \in {"participants", "sensors"}
           \/ (query_type = "data" /\ TruthyStr(params.sensor_name))
        THEN [conn |-> sub.conn,
              result |-> [sub.result EXCEPT !.op = "search_data",
                                            !.query_type = query_type,
                                            !.name = params.sensor_name]]
        ELSE [conn |-> c, result |-> error]

\* sorted(sensor_stats, key=record_count, reverse=True): a stable sort of the
\* tables in sqlite_master order
RecordCountDescending(e) == 0 - e.record_count

get_database_stats(c) ==
    LET c1 == connect(c)
        op == Call("get_database_stats", "raise", TRUE)
        names == tables \ MetaTables
        listed == SetToSeq(names, [n \in names |-> SensorRank(n)])
        sensor_stats == [i \in DOMAIN listed |->
                            [sensor_name |-> listed[i],
                             record_count |-> Len(sensorRows[listed[i]])]]
    IN  IF c1 = "closed" THEN [conn |-> c1, result |-> op]
        ELSE IF "participants" \notin tables \/ "data_dictionary" \notin tables
        THEN [conn |-> c1, result |-> op]
        ELSE [conn |-> c1,
              result |-> [op EXCEPT !.outcome = "value",
                                    !.total = Len(participants),
                                    !.sensor_types = Cardinality(dataDict),
                                    !.data = SortByKey(sensor_stats,
                                        [i \in DOMAIN sensor_stats |->
                                            RecordCountDescending(sensor_stats[i])],
                                        TRUE)]]

-----------------------------------------------------------------------------
(* Query Service: the calls, as a caller makes them on one instance *)

TableNameArgs == SensorNames \cup {"participants", "nosuch"}
DataNameArgs == {"wrist_hr", "participants", "nosuch"}
ParticipantArgs == {None, "101", "102"}
SessionArgs == {NoSession, [given |-> "int", val |-> 0], [given |-> "int", val |-> 1]}
LimitArgs == -1 .. MaxLimit
QueryTypes == {"participants", "sensors", "data", "tables"}
SearchParams ==
    [sensor_name : {None, "", "wrist_hr", "nosuch"}, participant_id : {None},
     session_id : {NoSession}, has_limit : BOOLEAN, limit : {1}]

\* a call that creates the participants table when it is missing
ReturnsCreatingTable(call) ==
    /\ pc = "idle"
    /\ result = NoCall
    /\ conn' = call.conn
    /\ result' = call.result
    /\ tables' = tables \cup {"participants"}
    /\ UNCHANGED <<dataRoot, sensorRows, participants, dataDict, extractorVars>>

\* a call is made once the caller has taken the result of the one before
Returns(call) ==
    /\ pc = "idle"
    /\ result = NoCall
    /\ conn' = call.conn
    /\ result' = call.result
    /\ UNCHANGED <<dataRoot, storeVars, extractorVars>>

\* get_db(): a new FatigueSetDatabase, self.conn = None
GetDb ==
    /\ pc = "idle"
    /\ conn # "none" \/ result # NoCall
    /\ conn' = "none"
    /\ result' = NoCall
    /\ UNCHANGED <<dataRoot, storeVars, extractorVars>>

\* close(): closes whatever self.conn holds and resets it
Close ==
    /\ pc = "idle"
    /\ conn # "none"
    /\ conn' = "none"
    /\ UNCHANGED <<dataRoot, storeVars, extractorVars, result>>

\* the caller takes the returned value (or handles the exception)
TakeResult ==
    /\ pc = "idle"
    /\ result # NoCall
    /\ result' = NoCall
    /\ UNCHANGED <<dataRoot, storeVars, extractorVars, conn>>

ListParticipants == Returns(get_participants(conn))

ListSensors == Returns(get_available_sensors(conn))

SensorSummary == \E n \in TableNameArgs : Returns(get_sensor_data_summary(conn, n))

SensorData ==
    \E n \in DataNameArgs, p \in ParticipantArgs, s \in SessionArgs,
       l \in LimitArgs, asc \in BOOLEAN :
        Returns(get_sensor_data(conn, n, p, s, l, asc))

ParticipantOverview ==
    \E p \in ParticipantIds \cup {"999"} : Returns(get_participant_overview(conn, p))

Search ==
    \E q \in QueryTypes, params \in SearchParams, asc \in BOOLEAN :
        Returns(search_data(conn, q, params, asc))

DatabaseStats == Returns(get_database_stats(conn))

Query ==
    \/ GetDb
    \/ Close
    \/ TakeResult
    \/ ListParticipants
    \/ ListSensors
    \/ SensorSummary
    \/ SensorData
    \/ ParticipantOverview
    \/ Search
    \/ DatabaseStats

-----------------------------------------------------------------------------
(* Presentation Surface: a request handler of app.py, from get_db() to the *)
(* finally: db.close(), as one step.  conn is then that instance's handle  *)
(* when the handler returns, and result is the response: op is the route,  *)
(* outcome the HTTP status ("500": the exception left the handler)         *)

\* get_db(): FatigueSetDatabase(DB_PATH), whose self.conn is None
get_db == "none"

\* close() leaving self.conn as it is
close_skipped(c) == c

\* close(): if self.conn: self.conn.close(); self.conn = None.  Closing a
\* connection that is already closed does nothing
close(c) == IF c # "none" THEN "none" ELSE c

\* return jsonify(...) is status 200; an exception that leaves the handler is 500
Status(outcome) == IF outcome = "raise" THEN "500" ELSE "200"

\* if summary is None: / if overview is None: return ..., 404
StatusOrNotFound(outcome) == IF outcome = "none" THEN "404" ELSE Status(outcome)

\* if 'error' in result: return jsonify(result), 400
StatusOrBadRequest(outcome) == IF outcome = "error" THEN "400" ELSE Status(outcome)

Responds(route, call, status) ==
    /\ pc = "idle"
    /\ result = NoCall
    /\ conn' = close(call.conn)
    /\ result' = [call.result EXCEPT !.op = route, !.outcome = status]
    /\ UNCHANGED <<dataRoot, storeVars, extractorVars>>

\* int(request.args.get('limit', 1000))
RequestDefaultLimit == 1000

\* request.args.get('participant_id'), request.args.get('session_id'): a
\* string or None
RequestNames == {"wrist_hr", "nosuch"}
RequestParticipants == {None, "101"}
RequestSessions == {NoSession, [given |-> "str", val |-> 0]}
RequestLimits == {1, RequestDefaultLimit}
RequestTypes == {"participants", "sensors", "data", "tables"}
RequestParams ==
    [sensor_name : {None, "wrist_hr"}, participant_id : {None},
     session_id : {NoSession}, has_limit : {FALSE}, limit : {1}]

ApiStats ==
    LET call == get_database_stats(get_db)
    IN  Responds("/api/stats", call, Status(call.result.outcome))

ApiParticipants ==
    LET call == get_participants(get_db)
    IN  Responds("/api/participants", call, Status(call.result.outcome))

ApiSensors ==
    LET call == get_available_sensors(get_db)
    IN  Responds("/api/sensors", call, Status(call.result.outcome))

ApiSensorSummary ==
    \E n \in RequestNames :
        LET call == get_sensor_data_summary(get_db, n)
        IN  Responds("/api/sensor/summary", call, StatusOrNotFound(call.result.outcome))

ApiSensorData ==
    \E n \in RequestNames, p \in RequestParticipants, s \in RequestSessions,
       l \in RequestLimits, asc \in BOOLEAN :
        LET call == get_sensor_data(get_db, n, p, s, l, asc)
        IN  Responds("/api/sensor/data", call, Status(call.result.outcome))

ApiParticipantOverview ==
    \E p \in {"101", "999"} :
        LET call == get_participant_overview(get_db, p)
        IN  Responds("/api/participant/overview", call,
                     StatusOrNotFound(call.result.outcome))

ApiSearch ==
    \E q \in RequestTypes, params \in RequestParams, asc \in BOOLEAN :
        LET call == search_data(get_db, q, params, asc)
        IN  Responds("/api/search", call, StatusOrBadRequest(call.result.outcome))

Serve ==
    \/ ApiStats
    \/ ApiParticipants
    \/ ApiSensors
    \/ ApiSensorSummary
    \/ ApiSensorData
    \/ ApiParticipantOverview
    \/ ApiSearch

-----------------------------------------------------------------------------

Init ==
    /\ dataRoot \in DataRoots
    /\ tables = {}
    /\ sensorRows = [s \in SensorNames |-> <<>>]
    /\ participants = <<>>
    /\ dataDict = {}
    /\ pc = "idle"
    /\ dataFiles = <<>>
    /\ idx = 1
    /\ total_records = 0
    /\ returned = <<>>
    /\ runs = 0
    /\ history = <<>>
    /\ conn = "none"
    /\ result = NoCall

Next == Extract \/ Query \/ Serve

Spec == Init /\ [][Next]_vars

-----------------------------------------------------------------------------
(* The Extractor alone, over a data root that holds one file (or none): a  *)
(* wrist_hr file of any of the two suffixes, written with any of the three *)
(* delimiters, under any of the headers below                              *)

\* header lines of one to three columns; the names are the file's own
Headers ==
    {<<"timestamp">>,
     <<"hr">>,
     <<"timestamp", "hr">>,
     <<"t", "bpm">>,
     <<"timestamp", "hr", "quality">>}

\* two data lines under header h
CellsUnder(h) == [r \in 1..2 |-> [c \in DOMAIN h |-> 10 * r + c]]

HrFiles ==
    {[participant_id |-> "101", session_id |-> 1, sensor_name |-> "wrist_hr",
      suffix |-> x, sep |-> d, readable |-> TRUE, header |-> h, cells |-> CellsUnder(h)] :
        x \in {".csv", ".txt"}, d \in {",", "\t", " "}, h \in Headers}

InitFiles ==
    /\ dataRoot \in [files : {<<>>} \cup {<<f>> : f \in HrFiles \cup FileChoices},
                     metadata : {[exists |-> FALSE, rows |-> <<>>]}]
    /\ tables = {}
    /\ sensorRows = [s \in SensorNames |-> <<>>]
    /\ participants = <<>>
    /\ dataDict = {}
    /\ pc = "idle"
    /\ dataFiles = <<>>
    /\ idx = 1
    /\ total_records = 0
    /\ returned = <<>>
    /\ runs = 0
    /\ history = <<>>
    /\ conn = "none"
    /\ result = NoCall

NextFiles == Extract

SpecFiles == InitFiles /\ [][NextFiles]_vars

-----------------------------------------------------------------------------
(* Properties of the Extractor *)

ExpectedColumns(f) == sensor_definitions[f.sensor_name].columns

\* the file parses and has more columns than its sensor expects
HasSurplusColumns(f) ==
    ReadDataFile(f).ok /\ Len(ReadDataFile(f).cols) > Len(ExpectedColumns(f))

\* C1: a processed file with more parsed columns than expected is loaded: it
\* returns its full row count, and each of its rows is in the sensor's table
\* with the first N parsed cells under the N expected names, tagged with the
\* file's participant and session.
C1_SurplusColumnsFileIsLoaded ==
    \A i \in DOMAIN returned :
        LET f == dataFiles[i]
            parsed == ReadDataFile(f)
        IN  HasSurplusColumns(f) =>
              /\ returned[i] = Len(parsed.rows)
              /\ returned[i] > 0
              /\ \A r \in DOMAIN parsed.rows :
                    \E row \in Range(sensorRows[f.sensor_name]) :
                        /\ row.participant_id = f.participant_id
                        /\ row.session_id = f.session_id
                        /\ row.vals = Take(parsed.rows[r], Len(ExpectedColumns(f)))

\* C3: a file whose processing fails counts zero records, the loop goes on to
\* every later file, and a run that discovered files ends with the commit and
\* the summary, the total being the sum of what the files returned.
C3_FileFailureIsSkipped ==
    /\ \A i \in DOMAIN returned : ~LoadFrame(dataFiles[i]).ok => returned[i] = 0
    /\ pc = "files" => Len(returned) = idx - 1 /\ total_records = SumSeq(returned)
    /\ \A k \in DOMAIN history :
          history[k].discovered > 0 =>
            /\ history[k].processed = history[k].discovered
            /\ history[k].committed
            /\ history[k].summary

\* a finished run in which a file failed and a later file was loaded
C3_Witness ==
    /\ pc = "idle"
    /\ runs >= 1
    /\ history[runs].committed
    /\ \E i, j \in DOMAIN returned :
          /\ i < j
          /\ ~LoadFrame(dataFiles[i]).ok
          /\ returned[i] = 0
          /\ returned[j] > 0

\* C4: after the second run over the same data root and store every sensor
\* table holds exactly twice the rows it held after the first run.
C4_SecondRunDoublesRows ==
    Len(history) >= 2 =>
        \A s \in SensorNames : history[2].counts[s] = 2 * history[1].counts[s]

\* two runs done, and the first one loaded rows
C4_Witness ==
    /\ Len(history) >= 2
    /\ history[1].counts["wrist_hr"] > 0
    /\ history[2].counts["wrist_hr"] = 2 * history[1].counts["wrist_hr"]

-----------------------------------------------------------------------------
(* Properties of the Query Service.  A property of what a call returns is  *)
(* stated of the step that makes the call: `conn` is self.conn when the    *)
(* method is entered, result' is what it returns.                          *)

\* the step is a call of op on an instance whose connection is None or open
CallOf(op) ==
    /\ result = NoCall
    /\ result' # NoCall
    /\ result'.op = op
    /\ conn # "closed"

Min(a, b) == IF a < b THEN a ELSE b

IsAscending(data) ==
    \A i, j \in DOMAIN data : i < j => Timestamp(data[i]) <= Timestamp(data[j])

\* data holds rows of `rows`, none of them twice
DrawnFrom(data, rows) ==
    /\ \A i \in DOMAIN data : data[i] \in Range(rows)
    /\ \A i, j \in DOMAIN data : i # j => data[i].id # data[j].id

\* no row left out has a smaller timestamp than a row returned
HoldsSmallest(data, rows) ==
    \A x \in Range(rows) \ Range(data) :
        \A i \in DOMAIN data : Timestamp(data[i]) <= Timestamp(x)

\* the rows of r's table that the call's WHERE clause selects
SelectedFor(r) == Selected(sensorRows[r.name], r.participant_id, r.session_id)

IsParticipantPresent(p) ==
    /\ "participants" \in tables
    /\ \E i \in DOMAIN participants : participants[i].participant_id = p

HasNoSensorRows(p) ==
    \A s \in SensorNames : \A r \in Range(sensorRows[s]) : r.participant_id # p

DictionaryPopulated ==
    /\ "data_dictionary" \in tables
    /\ \A s \in SensorNames : DictionaryRow(s) \in dataDict

\* C2: participant_overview returns the sentinel exactly when the participant
\* is absent from the participants table, and for a participant who is
\* present and has no row in any sensor table (the dictionary populated) it
\* returns an overview with an empty sensor_stats list.
C2_OverviewOfParticipantWithoutRows ==
    [][(CallOf("get_participant_overview") /\ "participants" \in tables /\ DictionaryPopulated)
         => /\ result'.outcome = "none" <=> ~IsParticipantPresent(result'.participant_id)
            /\ (IsParticipantPresent(result'.participant_id)
                  /\ HasNoSensorRows(result'.participant_id))
                 => result'.outcome = "value" /\ result'.data = <<>>]_vars

\* C5 as stated: at most limit rows, in ascending timestamp order; exactly
\* limit rows, those of smallest timestamp, when more rows match; all of them
\* when fewer match.
C5_AtMostLimitRows ==
    [][(CallOf("get_sensor_data") /\ result'.name \in SensorNames \cap tables)
         => /\ result'.outcome = "value"
            /\ Len(result'.data) <= result'.limit
            /\ IsAscending(result'.data)
            /\ DrawnFrom(result'.data, SelectedFor(result'))
            /\ HoldsSmallest(result'.data, SelectedFor(result'))
            /\ Len(SelectedFor(result')) > result'.limit
                 => Len(result'.data) = result'.limit
            /\ Len(SelectedFor(result')) <= result'.limit
                 => Len(result'.data) = Len(SelectedFor(result'))]_vars

\* C5, amended: for a limit >= 0 the call returns min(limit, n) of the n rows
\* its WHERE clause selects, in ascending timestamp order, and no row left out
\* has a smaller timestamp than a returned one; for a negative limit it
\* returns all n rows, in ascending timestamp order.
C5_LimitCapsNonNegative ==
    [][(CallOf("get_sensor_data") /\ result'.name \in SensorNames \cap tables)
         => /\ result'.outcome = "value"
            /\ IsAscending(result'.data)
            /\ DrawnFrom(result'.data, SelectedFor(result'))
            /\ HoldsSmallest(result'.data, SelectedFor(result'))
            /\ result'.total = Len(result'.data)
            /\ Len(result'.data) =
                 IF result'.limit < 0 THEN Len(SelectedFor(result'))
                 ELSE Min(result'.limit, Len(SelectedFor(result')))]_vars

\* more rows than limit, and the rows returned are not the first ones stored
C5_Witness ==
    /\ result.op = "get_sensor_data"
    /\ result.outcome = "value"
    /\ result.limit >= 1
    /\ Len(SelectedFor(result)) > result.limit
    /\ Len(result.data) = result.limit
    /\ \E i \in DOMAIN result.data : result.data[i].id > result.limit

\* the rows whose participant_id and session_id equal the values supplied
Matching(rows, participant_id, session_id) ==
    LET Keep(r) ==
            /\ participant_id # None => r.participant_id = participant_id
            /\ session_id.given # "no" => r.session_id = session_id.val
    IN  SelectSeq(rows, Keep)

\* C6: every supplied filter is applied: the rows returned are rows whose
\* participant_id and session_id equal the supplied values, and all of them
\* when limit is at least their number.
C6_SuppliedFiltersApply ==
    [][(CallOf("get_sensor_data") /\ result'.name \in SensorNames \cap tables
          /\ result'.limit >= 0)
         => LET matching == Matching(sensorRows[result'.name], result'.participant_id,
                                     result'.session_id)
            IN  /\ result'.outcome = "value"
                /\ DrawnFrom(result'.data, matching)
                /\ Len(result'.data) = Min(result'.limit, Len(matching))]_vars

IsCallerMistake(r) ==
    \/ r.query_type = "data" /\ r.name \in {None, ""}
    \/ r.query_type \notin {"participants", "sensors", "data"}

\* C7: search with query_type 'data' and no sensor_name, or with an unknown
\* query_type, returns an error result, does not raise, and touches neither
\* the store nor the instance's connection.
C7_SearchMistakeIsErrorResult ==
    [][(result = NoCall /\ result' # NoCall /\ result'.op = "search_data"
          /\ IsCallerMistake(result'))
         => /\ result'.outcome = "error"
            /\ ~result'.accessed
            /\ conn' = conn]_vars

C7_Witness ==
    /\ result.op = "search_data"
    /\ result.query_type = "data"
    /\ result.name = None
    /\ result.outcome = "error"
    /\ "wrist_hr" \in tables

SummaryOf(r) ==
    /\ r.outcome = "value"
    /\ r.total = Len(sensorRows[r.name])
    /\ Len(r.data) =
         Cardinality({<<x.participant_id, x.session_id>> : x \in Range(sensorRows[r.name])})
    /\ \A i, j \in DOMAIN r.data :
          i # j => <<r.data[i].participant_id, r.data[i].session_id>>
                     # <<r.data[j].participant_id, r.data[j].session_id>>
    /\ \A i \in DOMAIN r.data :
          r.data[i].record_count =
            Cardinality({k \in DOMAIN sensorRows[r.name] :
                /\ sensorRows[r.name][k].participant_id = r.data[i].participant_id
                /\ sensorRows[r.name][k].session_id = r.data[i].session_id})
    /\ SumSeq([i \in DOMAIN r.data |-> r.data[i].record_count]) = r.total

C9_UnknownSensorIsNotFound ==
    [][((CallOf("get_sensor_data")
           \/ (CallOf("search_data") /\ result'.query_type = "data"
                 /\ TruthyStr(result'.name)))
          /\ result'.name \notin tables)
         => result'.outcome = "none"]_vars

\* C10: list_participants returns the participants in participant_id order,
\* and an empty sequence, without raising, when the table is empty or absent.
C10_ListParticipantsNeverRaises ==
    [][CallOf("get_participants")
         => /\ result'.outcome = "value"
            /\ ("participants" \notin tables \/ participants = <<>>) => result'.data = <<>>
            /\ Range(result'.data) = Range(participants)
            /\ \A i, j \in DOMAIN result'.data :
                  i < j => PidRank(result'.data[i].participant_id)
                             <= PidRank(result'.data[j].participant_id)]_vars

\* C15: create_database_schema leaves exactly one table per sensor of the
\* catalog beside the two metadata tables, and exactly one dictionary row per
\* sensor, equal to the catalog entry, and keeps every sensor row; once a run
\* has completed, no later step of any run adds a table or a dictionary row
\* or drops a stored sensor row.
C15_SchemaSetupIsIdempotent ==
    [][/\ (pc = "schema" /\ pc' = "metadata") =>
            /\ tables' = MetaTables \cup SensorNames
            /\ {d.sensor_name : d \in dataDict'} = SensorNames
            /\ \A s \in SensorNames :
                    {d \in dataDict' : d.sensor_name = s} = {DictionaryRow(s)}
            /\ sensorRows' = sensorRows
       /\ runs >= 1 =>
            /\ tables' = tables
            /\ dataDict' = dataDict
            /\ \A s \in SensorNames :
                    Take(sensorRows'[s], Len(sensorRows[s])) = sensorRows[s]]_vars

\* the schema was set up a second time on a store that holds sensor rows
C15_Witness ==
    /\ runs = 1
    /\ pc = "metadata"
    /\ sensorRows["wrist_hr"] # <<>>
    /\ Cardinality(dataDict) = Cardinality(SensorNames)

\* the step is the append of the file the loop is at, to the table of sensor s
IsAppendTo(s) ==
    /\ pc = "files"
    /\ idx <= Len(dataFiles)
    /\ dataFiles[idx].sensor_name = s
    /\ idx' = idx + 1

\* C16: in every step, of a run or of the Query Service or of a request,
\* each sensor table keeps the rows it holds, unchanged and at the same
\* place, so its row count does not decrease; and a table's rows change only
\* in the append step of a file of that sensor.
C16_SensorTablesAreAppendOnly ==
    [][\A s \in SensorNames :
         /\ Len(sensorRows'[s]) >= Len(sensorRows[s])
         /\ \A k \in DOMAIN sensorRows[s] : sensorRows'[s][k] = sensorRows[s][k]
         /\ sensorRows'[s] # sensorRows[s] => IsAppendTo(s)]_vars

\* the second file of a sensor has been appended after the rows of the first
C16_Witness ==
    /\ pc = "files"
    /\ idx = 3
    /\ dataFiles[1].sensor_name = dataFiles[2].sensor_name
    /\ returned[1] > 0
    /\ Len(sensorRows[dataFiles[1].sensor_name]) > returned[1]

\* the parse of f with delimiter sep has the column count its sensor expects
ParsesAsExpected(f, sep) ==
    ReadCsv(f, sep).ok /\ Len(ReadCsv(f, sep).cols) = Len(ExpectedColumns(f))

\* comma first, tab when the comma parse has another column count, then space
RetryOrder == <<",", "\t", " ">>

\* the first delimiter of the retry order whose parse has the expected count
FirstFitting(f) ==
    RetryOrder[CHOOSE i \in DOMAIN RetryOrder :
                  /\ ParsesAsExpected(f, RetryOrder[i])
                  /\ \A j \in 1..(i - 1) : ~ParsesAsExpected(f, RetryOrder[j])]

\* the rows of the sensor's table that carry the file's participant and session
RowsOf(f) ==
    SelectSeq(sensorRows[f.sensor_name],
              LAMBDA row : /\ row.participant_id = f.participant_id
                           /\ row.session_id = f.session_id)

\* C17: whatever the suffix of a processed file, when one of the comma, tab
\* and space parses has the expected column count, the frame the Extractor
\* reconciles is the first of them in that order, so the file's rows are
\* stored cell by cell.
C17_CommaThenTabThenSpace ==
    \A i \in DOMAIN returned :
        LET f == dataFiles[i]
        IN  (\E k \in DOMAIN RetryOrder : ParsesAsExpected(f, RetryOrder[k])) =>
                /\ ReadDataFile(f) = ReadCsv(f, FirstFitting(f))
                /\ returned[i] = Len(f.cells)
                /\ \A k \in DOMAIN RowsOf(f) : RowsOf(f)[k].vals \in Range(f.cells)

\* the one delimiter a readable file is parsed with
SuffixDelimiter(f) == IF f.suffix = ".csv" THEN "," ELSE "\t"

\* C17 as amended: a processed .csv file is parsed with comma only, any other
\* file with tab (and with space only when the tab parse raises); the column
\* count causes no retry, so a file of several columns written with another
\* delimiter is reconciled as one column per line: every line is stored
\* unsplit under the first expected column, the other columns 0.
C17_SuffixDecidesDelimiter ==
    \A i \in DOMAIN returned :
        LET f == dataFiles[i]
            df == ReconcileColumns(ReadCsv(f, SuffixDelimiter(f)), ExpectedColumns(f))
        IN  f.readable =>
              /\ returned[i] = IF df.ok THEN Len(df.rows) ELSE 0
              /\ Len(RowsOf(f)) >= returned[i]
              /\ df.ok => \A r \in DOMAIN df.rows :
                              \E k \in DOMAIN RowsOf(f) : RowsOf(f)[k].vals = df.rows[r]
              /\ (f.sep # SuffixDelimiter(f) /\ Len(f.header) > 1) =>
                    /\ returned[i] = Len(f.cells)
                    /\ \A k \in DOMAIN RowsOf(f) :
                          /\ RowsOf(f)[k].vals[1] \in {JoinCells(row) : row \in Range(f.cells)}
                          /\ \A c \in 2..Len(ExpectedColumns(f)) : RowsOf(f)[k].vals[c] = 0

\* a comma-separated .txt file of the expected two columns has been
\* processed: its lines are stored unsplit
C17_Witness ==
    /\ returned # <<>>
    /\ dataFiles[1].suffix = ".txt"
    /\ dataFiles[1].sep = ","
    /\ dataFiles[1].header = <<"timestamp", "hr">>
    /\ returned[1] = 2
    /\ RowsOf(dataFiles[1])[1].vals[2] = 0

\* row padded with zeros to n cells
ZeroFilled(row, n) == row \o [k \in 1..(n - Len(row)) |-> 0]

\* C18: a processed file whose parse has at most the expected number of
\* columns returns its full row count, and each of its rows is stored with
\* the parsed cells in their positions, 0 in every missing trailing column,
\* and the participant_id and session_id of the file's path.
C18_ShortFileIsPaddedAndLoaded ==
    \A i \in DOMAIN returned :
        LET f == dataFiles[i]
            df == ReadDataFile(f)
            n == Len(ExpectedColumns(f))
        IN  (df.ok /\ Len(df.cols) <= n) =>
                /\ returned[i] = Len(df.rows)
                /\ \A r \in DOMAIN df.rows :
                      \E k \in DOMAIN RowsOf(f) :
                          RowsOf(f)[k].vals = ZeroFilled(df.rows[r], n)

-----------------------------------------------------------------------------
(* Properties of the Query Service as a whole *)

QueryOps ==
    {"get_participants", "get_available_sensors", "get_sensor_data_summary",
     "get_sensor_data", "get_participant_overview", "search_data", "get_database_stats"}

\* the step is a Query Service call, whatever it returns
IsQueryCall == result = NoCall /\ result' # NoCall /\ result'.op \in QueryOps

\* C11: no Query Service call, whether it returns a result, the sentinel or an
\* error, or raises, changes the set of tables or the rows of any table.
C11_QueriesLeaveStoreUnchanged ==
    [][IsQueryCall =>
         /\ tables' = tables
         /\ sensorRows' = sensorRows
         /\ participants' = participants
         /\ dataDict' = dataDict]_vars

\* a call that raised on a store that holds tables and rows
C11_Witness ==
    /\ result.op = "get_participant_overview"
    /\ result.outcome = "raise"
    /\ sensorRows["wrist_hr"] # <<>>
    /\ participants # <<>>

\* the six operations that open a connection on every call
ConnectingOps == QueryOps \ {"search_data"}

\* C12: a call of list_participants, list_sensors, sensor_summary, sensor_data,
\* participant_overview or database_stats that opened a connection (the
\* instance held none) has released it when it returns or raises.
C12_CallReleasesItsConnection ==
    [][(IsQueryCall /\ result'.op \in ConnectingOps /\ conn = "none") => conn' # "open"]_vars

\* C14: on one instance a Query Service call finds the connection handle
\* unset or open, and so gives what a new instance would give: list_sensors
\* returns the sensors when the dictionary table exists, and sensor_summary of
\* a sensor table returns its summary, whatever was called before.
C14_CallsLeaveInstanceUsable ==
    [][IsQueryCall =>
         /\ conn \in {"none", "open"}
         /\ (result'.op = "get_available_sensors" /\ "data_dictionary" \in tables)
                => result'.outcome = "value"
         /\ (result'.op = "get_sensor_data_summary" /\ result'.name \in tables \cap SensorNames)
                => result'.outcome = "value"]_vars

-----------------------------------------------------------------------------
(* Properties of the Presentation Surface *)

Routes ==
    {"/api/stats", "/api/participants", "/api/sensors", "/api/sensor/summary",
     "/api/sensor/data", "/api/participant/overview", "/api/search"}

\* the step is a request handled from get_db() to its return
IsRequest == result = NoCall /\ result' # NoCall /\ result'.op \in Routes

\* C13: whatever the handler's exit (200, 404, 400, or the query's
\* exception), the instance it created holds no connection when it returns,
\* also when the query had closed the connection itself; and the request does
\* not see the state a call before it left behind: /api/sensors and
\* /api/participants answer 200 whenever their table exists.
C13_HandlerClosesItsOwnConnection ==
    [][IsRequest =>
         /\ conn' = "none"
         /\ (result'.op = "/api/sensors" /\ "data_dictionary" \in tables)
                => result'.outcome = "200"
         /\ (result'.op = "/api/participants" /\ "participants" \in tables)
                => result'.outcome = "200"]_vars

\* a request whose query closed the connection itself and then raised: the
\* handler's close() met a connection that was already closed
C13_Witness ==
    /\ result.op = "/api/participant/overview"
    /\ result.outcome = "500"
    /\ conn = "none"
    /\ participants # <<>>

====
